---- MODULE Spec2Model ----
(***************************************************************************)
(* Model of tensorflow_datasets/translate/opus.py: the static catalog of   *)
(* OPUS sub-corpora (SubDataset, DATASET_MAP), the builder configuration   *)
(* (OpusConfig), the filter of the configured subsets (Opus.subsets), the  *)
(* split generation (Opus._split_generators) and the sentence-pair         *)
(* generator (Opus._generate_examples).                                    *)
(*                                                                         *)
(* Language codes, corpus names, URLs, paths and record keys are strings.  *)
(* File contents and sentences are sequences of one-character strings, so  *)
(* that str.split("\n") is computed character by character.                *)
(***************************************************************************)
EXTENDS Integers, Sequences, FiniteSets, TLC

VARIABLES
  builder_config,    \* the OpusConfig of the builder
  fs,                \* extracted files: path -> text
  pc,                \* "configured", "gen", "error"; "new"/"built" for a SubDataset
  error,             \* name of the exception _split_generators raised, "" if none
  downloads,         \* locators passed to dl_manager.download_and_extract, in call order
  splits,            \* return value of _split_generators
  gens,              \* the generators the calls of _generate_examples returned, each a frame
  new_languages,     \* `languages` argument of a SubDataset under construction
  new_dataset        \* the SubDataset constructed from it

vars == <<builder_config, fs, pc, error, downloads, splits, gens,
          new_languages, new_dataset>>

----------------------------------------------------------------------------
(* Bounds *)

MaxNames == 3      \* longest list of subset names of a configuration
MaxLines == 6      \* total number of lines of all files of a file system
MaxLangs == 3      \* longest language list of a constructed SubDataset

LangCodes == {"de", "en", "en_GB", "es", "fr"}

NL == "\n"

\* Sentences a line of a file can hold: empty, a letter, whitespace only.
Lines == {<<>>, <<"a">>, <<" ">>}

None == "None"

Min(a, b) == IF a < b THEN a ELSE b

Max(a, b) == IF a > b THEN a ELSE b

----------------------------------------------------------------------------
(* SubDataset and DATASET_MAP *)

\* inner loop of SubDataset.__init__: for target in languages[idx + 1:]
PairsFrom(source, rest) == [j \in 1..Len(rest) |-> <<source, rest[j]>>]

RECURSIVE language_pairs_self(_)
language_pairs_self(languages) ==
  IF languages = <<>> THEN <<>>
  ELSE PairsFrom(Head(languages), languages)
         \o language_pairs_self(Tail(languages))

RECURSIVE language_pairs_forward(_)
language_pairs_forward(languages) ==
  IF languages = <<>> THEN <<>>
  ELSE PairsFrom(Head(languages), Tail(languages))
         \o language_pairs_forward(Tail(languages))

Swapped(pairs) == [i \in 1..Len(pairs) |-> <<pairs[i][2], pairs[i][1]>>]

language_pairs_both(languages) ==
  language_pairs_forward(languages) \o Swapped(language_pairs_forward(languages))

\* outer loop of SubDataset.__init__: for idx, source in enumerate(languages)
RECURSIVE language_pairs(_)
language_pairs(languages) ==
  IF languages = <<>> THEN <<>>
  ELSE PairsFrom(Head(languages), Tail(languages))
         \o language_pairs(Tail(languages))

SubDataset(name, description, homepage, url, languages, filename) ==
  [name |-> name, description |-> description, homepage |-> homepage,
   url |-> url, filename |-> filename,
   language_pairs |-> language_pairs(languages)]

\* The languages each entry of the catalog is constructed from.
CatalogLanguages ==
  [n \in {"EMEA", "JRC-Acquis", "Tanzil", "GNOME", "KDE4", "PHP", "Ubuntu",
          "OpenOffice", "OpenSubtitles"} |->
     IF n = "OpenOffice" THEN <<"de", "en_GB", "es">> ELSE <<"de", "en", "es">>]

CatalogList ==
  << SubDataset("EMEA",
       "A parallel corpus made out of PDF documents from the European Medicines Agency.",
       "http://opus.nlpl.eu/EMEA.php",
       "http://opus.nlpl.eu/download.php?f=EMEA/v3/moses/",
       CatalogLanguages["EMEA"], "EMEA"),
     SubDataset("JRC-Acquis",
       "A collection of legislative text of the European Union and currently comprises selected texts written between the 1950s and now.",
       "http://opus.nlpl.eu/JRC-Acquis.php",
       "http://opus.nlpl.eu/download.php?f=JRC-Acquis/",
       CatalogLanguages["JRC-Acquis"], "JRC-Acquis"),
     SubDataset("Tanzil",
       "A collection of Quran translations compiled by the Tanzil project.",
       "http://opus.nlpl.eu/Tanzil.php",
       "http://opus.nlpl.eu/download.php?f=Tanzil/v1/moses/",
       CatalogLanguages["Tanzil"], "Tanzil"),
     SubDataset("GNOME",
       "A parallel corpus of GNOME localization files. Source: https://l10n.gnome.org",
       "http://opus.nlpl.eu/GNOME.php",
       "http://opus.nlpl.eu/download.php?f=GNOME/v1/moses/",
       CatalogLanguages["GNOME"], "GNOME"),
     SubDataset("KDE4",
       "A parallel corpus of KDE4 localization files (v.2).",
       "http://opus.nlpl.eu/KDE4.php",
       "http://opus.nlpl.eu/download.php?f=KDE4/v2/moses/",
       CatalogLanguages["KDE4"], "KDE4"),
     SubDataset("PHP",
       "A parallel corpus originally extracted from http://se.php.net/download-docs.php.",
       "http://opus.nlpl.eu/PHP.php",
       "http://opus.nlpl.eu/download.php?f=PHP/v1/moses/",
       CatalogLanguages["PHP"], "PHP"),
     SubDataset("Ubuntu",
       "A parallel corpus of Ubuntu localization files. Source: https://translations.launchpad.net",
       "http://opus.nlpl.eu/Ubuntu.php",
       "http://opus.nlpl.eu/download.php?f=Ubuntu/v14.10/moses/",
       CatalogLanguages["Ubuntu"], "Ubuntu"),
     SubDataset("OpenOffice",
       "A collection of documents from http://www.openoffice.org/.",
       "http://opus.nlpl.eu/OpenOffice.php",
       "http://opus.nlpl.eu/download.php?f=OpenOffice/v3/moses/",
       CatalogLanguages["OpenOffice"], "OpenOffice"),
     SubDataset("OpenSubtitles",
       "A new collection of translated movie subtitles from http://www.opensubtitles.org/",
       "http://opus.nlpl.eu/OpenSubtitles-v2018.php",
       "http://opus.nlpl.eu/download.php?f=OpenSubtitles/v2018/",
       CatalogLanguages["OpenSubtitles"], "OpenSubtitles") >>

\* {ds.name: ds for ds in [...]}: a later entry of the same name wins
DATASET_MAP ==
  [n \in {CatalogList[i].name : i \in DOMAIN CatalogList} |->
     LET last == CHOOSE i \in DOMAIN CatalogList :
                   /\ CatalogList[i].name = n
                   /\ \A j \in DOMAIN CatalogList :
                        CatalogList[j].name = n => j <= i
     IN CatalogList[last]]

----------------------------------------------------------------------------
(* OpusConfig *)

OpusConfig(language_pair, subset_names) ==
  LET name == language_pair[1] \o "-" \o language_pair[2]
  IN [name |-> name, description |-> name \o " documents",
      language_pair |-> language_pair, subsets |-> subset_names]

----------------------------------------------------------------------------
(* Opus.subsets *)

\* Outcome of an evaluation that may raise.
Raised(exc) == [error |-> exc, value |-> <<>>]

Returned(v) == [error |-> "", value |-> v]

RECURSIVE SkipUnknown(_)
SkipUnknown(names) ==
  IF names = <<>> THEN <<>>
  ELSE (IF Head(names) \in DOMAIN DATASET_MAP
          THEN <<DATASET_MAP[Head(names)]>> ELSE <<>>)
         \o SkipUnknown(Tail(names))

LookupSkipping(names) == Returned(SkipUnknown(names))

\* [DATASET_MAP[name] for name in self.builder_config.subsets]
Lookup(names) ==
  IF \E i \in DOMAIN names : names[i] \notin DOMAIN DATASET_MAP
    THEN Raised("KeyError")
    ELSE Returned([i \in DOMAIN names |-> DATASET_MAP[names[i]]])

\* (source, target) in dataset.language_pairs
InPairs(pair, pairs) == \E i \in DOMAIN pairs : pairs[i] = pair

RECURSIVE FilterPrepending(_, _)
FilterPrepending(pair, datasets) ==
  IF datasets = <<>> THEN <<>>
  ELSE FilterPrepending(pair, Tail(datasets))
         \o (IF InPairs(pair, Head(datasets).language_pairs)
               THEN <<Head(datasets)>> ELSE <<>>)

\* the loop of Opus.subsets: append the datasets that have the pair
RECURSIVE Filter(_, _)
Filter(pair, datasets) ==
  IF datasets = <<>> THEN <<>>
  ELSE (IF InPairs(pair, Head(datasets).language_pairs)
          THEN <<Head(datasets)>> ELSE <<>>)
         \o Filter(pair, Tail(datasets))

subsets(config) ==
  LET looked == Lookup(config.subsets)
  IN IF looked.error /= "" THEN looked
     ELSE Returned(Filter(config.language_pair, looked.value))

----------------------------------------------------------------------------
(* Opus._split_generators *)

\* os.path.join(a, b) for a relative b: a separator is added unless a has one.
\* The strings with a trailing separator are the catalog's URLs.
PathJoin(a, b) ==
  IF a \in {DATASET_MAP[n].url : n \in DOMAIN DATASET_MAP}
    THEN a \o b ELSE a \o "/" \o b

\* dl_manager.download_and_extract(locator): the directory the archive is
\* extracted to, one per locator.
ExtractDir(locator) == "/extracted/" \o locator

file_ext_swapped(source, target) == target \o "-" \o source

\* file_ext = "%s-%s"%(source, target)
file_ext(source, target) == source \o "-" \o target

Locator(item, ext) == PathJoin(item.url, ext \o ".txt.zip")

ResolvedSubset(item, source, target) ==
  LET ext == file_ext(source, target)
      dl_dir == ExtractDir(Locator(item, ext))
  IN [name |-> item.name,
      source_file |-> PathJoin(dl_dir, item.filename \o "." \o ext \o "." \o source),
      target_file |-> PathJoin(dl_dir, item.filename \o "." \o ext \o "." \o target)]

split_generators(config) ==
  LET source == config.language_pair[1]
      target == config.language_pair[2]
      filtered == subsets(config)
  IN IF filtered.error /= ""
       THEN [error |-> filtered.error, downloads |-> <<>>, splits |-> <<>>]
       ELSE [error |-> "",
             downloads |-> [i \in DOMAIN filtered.value |->
                              Locator(filtered.value[i], file_ext(source, target))],
             splits |-> << [name |-> "train",
                            gen_kwargs |-> [subsets |->
                              [i \in DOMAIN filtered.value |->
                                 ResolvedSubset(filtered.value[i], source, target)]]] >>]

----------------------------------------------------------------------------
(* Opus._generate_examples *)

\* str.split("\n")
RECURSIVE Split(_)
Split(text) ==
  IF \A i \in DOMAIN text : text[i] /= NL THEN <<text>>
  ELSE LET i == CHOOSE i \in DOMAIN text :
                  /\ text[i] = NL
                  /\ \A j \in 1..(i - 1) : text[j] /= NL
       IN <<SubSeq(text, 1, i - 1)>> \o Split(SubSeq(text, i + 1, Len(text)))

zip_padded(xs, ys) ==
  [i \in 1..Max(Len(xs), Len(ys)) |->
     <<xs[Min(i, Len(xs))], ys[Min(i, Len(ys))]>>]

\* zip(source_sentences, target_sentences)
zip(xs, ys) == [i \in 1..Min(Len(xs), Len(ys)) |-> <<xs[i], ys[i]>>]

truthy_stripped(sentence) == \E i \in DOMAIN sentence : sentence[i] /= " "

\* truth value of a str
truthy(sentence) == sentence /= <<>>

\* {source: source_sentence, target: target_sentence}: the later key wins
Result(source, target, source_sentence, target_sentence) ==
  (target :> target_sentence) @@ (source :> source_sentence)

\* all(result.values())
all_values(result) == \A k \in DOMAIN result : truthy(result[k])

\* key = "%s/%d"%(item["name"], idx)
Key(name, idx) == name \o "/" \o ToString(idx)

\* The frame of a generator that has not run yet: calling
\* _generate_examples runs none of its body. idx is -1 while unbound.
NewGenerator ==
  [status |-> "start", item |-> 0, idx |-> -1,
   source_sentences |-> <<>>, target_sentences |-> <<>>,
   records |-> <<>>, error |-> ""]

ItemAtReversed(subs, k) == subs[Len(subs) + 1 - k]

\* the k-th item of `for item in subsets`
ItemAt(subs, k) == subs[k]

\* The first position from `from` on whose pair passes `if all(...)`, 0 if none.
NextValid(zipped, source, target, from) ==
  LET valid == {j \in from..Len(zipped) :
                  all_values(Result(source, target, zipped[j][1], zipped[j][2]))}
  IN IF valid = {} THEN 0 ELSE CHOOSE j \in valid : \A k \in valid : j <= k

\* yield key, result: the generator suspends at position j of the item
Yield(f, name, source, target, zipped, j) ==
  [f EXCEPT !.status = "suspended",
            !.idx = j - 1,
            !.records = Append(@, [key |-> Key(name, j - 1),
                                   result |-> Result(source, target,
                                                     zipped[j][1], zipped[j][2])])]

\* The generator enters the k-th iteration of the outer loop and runs to its
\* next yield, to its return, or to the error of opening a missing file.
RECURSIVE EnterItem(_, _, _, _, _, _)
EnterItem(f, k, subs, source, target, files) ==
  IF k > Len(subs) THEN [f EXCEPT !.status = "returned"]
  ELSE LET item == ItemAt(subs, k)
       IN IF item.source_file \notin DOMAIN files
            THEN [f EXCEPT !.status = "raised", !.error = "NotFoundError",
                           !.item = k]
          ELSE IF item.target_file \notin DOMAIN files
            THEN [f EXCEPT !.status = "raised", !.error = "NotFoundError",
                           !.item = k,
                           !.source_sentences = Split(files[item.source_file])]
          ELSE LET sources == Split(files[item.source_file])
                   targets == Split(files[item.target_file])
                   zipped == zip(sources, targets)
                   j == NextValid(zipped, source, target, 1)
                   g == [f EXCEPT !.item = k,
                                  !.source_sentences = sources,
                                  !.target_sentences = targets]
               IN IF j = 0
                    THEN EnterItem([g EXCEPT !.idx = Len(zipped) - 1],
                                   k + 1, subs, source, target, files)
                    ELSE Yield(g, item.name, source, target, zipped, j)

\* next(generator): from the start, or from the yield it is suspended at.
Resume(f, subs, source, target, files) ==
  IF f.status = "start" THEN EnterItem(f, 1, subs, source, target, files)
  ELSE LET zipped == zip(f.source_sentences, f.target_sentences)
           j == NextValid(zipped, source, target, f.idx + 2)
       IN IF j = 0
            THEN EnterItem([f EXCEPT !.idx = Len(zipped) - 1],
                           f.item + 1, subs, source, target, files)
            ELSE Yield(f, ItemAt(subs, f.item).name, source, target, zipped, j)

----------------------------------------------------------------------------
(* Inputs *)

RECURSIVE Join(_)
Join(lines) ==
  IF Len(lines) = 1 THEN lines[1]
  ELSE lines[1] \o <<NL>> \o Join(Tail(lines))

RECURSIVE Total(_)
Total(counts) ==
  IF counts = <<>> THEN 0 ELSE Head(counts) + Total(Tail(counts))

\* The file system that holds, at the k-th path, the text of the next
\* counts[k] lines of `flat`.
Carve(paths, counts, flat) ==
  [p \in {paths[k] : k \in DOMAIN paths} |->
     LET k == CHOOSE j \in DOMAIN paths : paths[j] = p
         off == Total(SubSeq(counts, 1, k - 1))
     IN Join(SubSeq(flat, off + 1, off + counts[k]))]

SeqsUpTo(S, n) == UNION {[1..k -> S] : k \in 0..n}

\* Names a configuration may list: catalog entries and a name the catalog lacks.
SubsetNames == {"EMEA", "OpenOffice", "GNOME", "NoSuchCorpus"}

RECURSIVE Distinct(_)
Distinct(s) ==
  IF s = <<>> THEN <<>>
  ELSE LET front == Distinct(SubSeq(s, 1, Len(s) - 1))
           last == s[Len(s)]
       IN IF \E i \in DOMAIN front : front[i] = last
            THEN front ELSE Append(front, last)

RECURSIVE FilesOf(_)
FilesOf(resolved) ==
  IF resolved = <<>> THEN <<>>
  ELSE <<Head(resolved).source_file, Head(resolved).target_file>>
         \o FilesOf(Tail(resolved))

\* Paths _generate_examples will read under a configuration, in reading order
PathsOf(config) ==
  LET r == split_generators(config)
  IN IF r.error /= "" THEN <<>>
     ELSE Distinct(FilesOf(r.splits[1].gen_kwargs.subsets))

\* Configurations whose generation is explored together with the files.
GenConfigs ==
  { OpusConfig(<<"de", "es">>, <<"EMEA", "OpenOffice">>),
    OpusConfig(<<"de", "en">>, <<"EMEA", "OpenOffice", "EMEA">>),
    OpusConfig(<<"en", "de">>, <<"EMEA">>),
    OpusConfig(<<"de", "es">>, <<"EMEA", "NoSuchCorpus">>) }

\* Configurations whose generation is explored with two generators.
TwiceConfigs ==
  { OpusConfig(<<"de", "en">>, <<"EMEA", "OpenOffice", "EMEA">>) }

NoFiles == [p \in {} |-> <<>>]

\* The extracted files a configuration will read: every file with a line at
\* least and all files with MaxLines lines at most; or, the archive lacking
\* them, no file at all, or the first file alone.
Extracted(config) ==
  \E paths \in {PathsOf(config)} :
    \/ \E counts \in [DOMAIN paths -> 1..MaxLines] :
         /\ Total(counts) <= MaxLines
         /\ \E flat \in [1..Total(counts) -> Lines] :
              fs = Carve(paths, counts, flat)
    \/ /\ paths /= <<>>
       /\ fs \in {NoFiles, (paths[1] :> <<"a">>)}

----------------------------------------------------------------------------
(* Initial states *)

NoBuild ==
  /\ error = ""
  /\ downloads = <<>>
  /\ splits = <<>>
  /\ gens = <<>>

NoConstruction ==
  /\ new_languages = <<>>
  /\ new_dataset = None

\* A builder with one of GenConfigs and extracted files.
Init ==
  /\ builder_config \in GenConfigs
  /\ Extracted(builder_config)
  /\ pc = "configured"
  /\ NoBuild /\ NoConstruction

\* A builder with one of TwiceConfigs and extracted files.
InitTwice ==
  /\ builder_config \in TwiceConfigs
  /\ Extracted(builder_config)
  /\ pc = "configured"
  /\ NoBuild /\ NoConstruction

\* A builder with any language pair and any list of subset names.
InitResolve ==
  /\ builder_config \in { OpusConfig(<<s, t>>, names) :
                            s \in LangCodes, t \in LangCodes,
                            names \in SeqsUpTo(SubsetNames, MaxNames) }
  /\ fs = NoFiles
  /\ pc = "configured"
  /\ NoBuild /\ NoConstruction

\* A SubDataset about to be constructed from any language list.
InitCatalog ==
  /\ new_languages \in SeqsUpTo(LangCodes, MaxLangs)
  /\ new_dataset = None
  /\ pc = "new"
  /\ builder_config = OpusConfig(<<"de", "en">>, <<>>)
  /\ fs = NoFiles
  /\ NoBuild

----------------------------------------------------------------------------
(* Actions *)

\* SubDataset.__init__
Construct ==
  /\ pc = "new"
  /\ new_dataset' = SubDataset("New", "", "", "http://opus.nlpl.eu/New/",
                               new_languages, "New")
  /\ pc' = "built"
  /\ UNCHANGED <<builder_config, fs, error, downloads, splits, gens,
                 new_languages>>

\* _split_generators returns the one "train" split; no generator exists yet.
SplitGenerators ==
  /\ pc = "configured"
  /\ LET r == split_generators(builder_config)
     IN /\ r.error = ""
        /\ downloads' = r.downloads
        /\ splits' = r.splits
        /\ pc' = "gen"
  /\ UNCHANGED <<builder_config, fs, error, gens, new_languages, new_dataset>>

\* _split_generators raises
SplitGeneratorsRaise ==
  /\ pc = "configured"
  /\ LET r == split_generators(builder_config)
     IN /\ r.error /= ""
        /\ error' = r.error
        /\ downloads' = r.downloads
        /\ splits' = r.splits
        /\ pc' = "error"
  /\ UNCHANGED <<builder_config, fs, gens, new_languages, new_dataset>>

\* the list the generators iterate: the one object gen_kwargs refers to
GenSubsets == splits[1].gen_kwargs.subsets

\* what next() makes of the g-th generator
Resumed(g) ==
  Resume(gens[g], GenSubsets, builder_config.language_pair[1],
         builder_config.language_pair[2], fs)

CanResume(g) ==
  /\ pc = "gen"
  /\ g \in DOMAIN gens
  /\ gens[g].status \in {"start", "suspended"}

GeneratorNextConsuming(g) ==
  /\ CanResume(g)
  /\ gens' = [gens EXCEPT ![g] = Resumed(g)]
  /\ splits' = IF gens'[g].status = "returned"
                 THEN [splits EXCEPT ![1].gen_kwargs.subsets = <<>>]
                 ELSE splits
  /\ UNCHANGED <<builder_config, fs, pc, error, downloads,
                 new_languages, new_dataset>>

\* next() on the g-th generator: it runs from where it is suspended to its
\* next yield (one more record), to its return (StopIteration) or to the
\* open of a missing file (NotFoundError). Nothing else runs in between.
GeneratorNext(g) ==
  /\ CanResume(g)
  /\ gens' = [gens EXCEPT ![g] = Resumed(g)]
  /\ UNCHANGED <<builder_config, fs, pc, error, downloads, splits,
                 new_languages, new_dataset>>

\* The first call of _generate_examples with the gen_kwargs of the split,
\* made after _split_generators has returned: it returns a generator and
\* runs none of the body.
GenerateExamples ==
  /\ pc = "gen"
  /\ gens = <<>>
  /\ gens' = <<NewGenerator>>
  /\ UNCHANGED <<builder_config, fs, pc, error, downloads, splits,
                 new_languages, new_dataset>>

\* _generate_examples is called again with the same gen_kwargs, at any
\* time after the first call: a second generator, with its own locals.
GenerateAgain ==
  /\ pc = "gen"
  /\ Len(gens) = 1
  /\ gens' = Append(gens, NewGenerator)
  /\ UNCHANGED <<builder_config, fs, pc, error, downloads, splits,
                 new_languages, new_dataset>>

Next ==
  \/ SplitGenerators
  \/ SplitGeneratorsRaise
  \/ GenerateExamples
  \/ \E g \in DOMAIN gens : GeneratorNext(g)

NextTwice ==
  \/ SplitGenerators
  \/ GenerateExamples
  \/ GenerateAgain
  \/ \E g \in DOMAIN gens : GeneratorNext(g)

NextResolve ==
  \/ SplitGenerators
  \/ SplitGeneratorsRaise

NextCatalog == Construct

Spec == Init /\ [][Next]_vars

SpecTwice == InitTwice /\ [][NextTwice]_vars

SpecResolve == InitResolve /\ [][NextResolve]_vars

SpecCatalog == InitCatalog /\ [][NextCatalog]_vars

----------------------------------------------------------------------------
(* Properties *)

TypeOK ==
  /\ pc \in {"configured", "gen", "error", "new", "built"}
  /\ error \in {"", "KeyError"}
  /\ Len(gens) <= 2
  /\ \A g \in DOMAIN gens :
       gens[g].status \in {"start", "suspended", "returned", "raised"}

Range(s) == {s[i] : i \in DOMAIN s}

IndexOf(x, s) == CHOOSE i \in DOMAIN s : s[i] = x

\* _split_generators has returned
Built == pc = "gen"

\* _generate_examples has been called
Started == Built /\ gens /= <<>>

Pair == builder_config.language_pair

Names == builder_config.subsets

ResolvedNames == [i \in DOMAIN GenSubsets |-> GenSubsets[i].name]

\* the corpus of this name has the requested pair among its derived pairs
Supports(name) == InPairs(Pair, DATASET_MAP[name].language_pairs)

\* the requested pair is two distinct codes of the corpus's language list
BothListed(name) ==
  /\ Pair[1] /= Pair[2]
  /\ Pair[1] \in Range(CatalogLanguages[name])
  /\ Pair[2] \in Range(CatalogLanguages[name])

(* C1 as stated: a named catalog corpus whose language list holds both codes
   of the requested pair is in the resolved list, in whichever order the
   pair gives the two codes. *)
C1_OrderInsensitive ==
  Built =>
    \A i \in DOMAIN Names :
      BothListed(Names[i]) => Names[i] \in Range(ResolvedNames)

(* What Opus.subsets does instead: a named catalog corpus whose language
   list holds both codes of the requested pair is in the resolved list
   exactly when the source code comes before the target code in that list. *)
C1_OrderSensitive ==
  Built =>
    \A i \in DOMAIN Names :
      BothListed(Names[i]) =>
        (Names[i] \in Range(ResolvedNames)
           <=> IndexOf(Pair[1], CatalogLanguages[Names[i]])
                 < IndexOf(Pair[2], CatalogLanguages[Names[i]]))

\* The reversed pair of a catalog corpus resolves to nothing.
C1_Witness ==
  /\ Built
  /\ Pair = <<"en", "de">>
  /\ Names = <<"EMEA">>
  /\ ResolvedNames = <<>>

(* C2: when a configured subset name is not in the catalog, split generation
   ends in a KeyError, with no resolved entry and no download, wherever the
   name stands in the list and whatever the other corpora support. *)
C2_UnknownNameRaises ==
  (pc /= "configured" /\ \E i \in DOMAIN Names : Names[i] \notin DOMAIN DATASET_MAP)
    => /\ pc = "error"
       /\ error = "KeyError"
       /\ splits = <<>>
       /\ downloads = <<>>

C2_Witness ==
  /\ pc = "error"
  /\ Pair = <<"de", "en">>
  /\ Names = <<"EMEA", "NoSuchCorpus", "GNOME">>

(* C5: the resolved list is the configured names filtered, in their order,
   to the corpora that have the requested pair; it is no longer than the
   configured list, and the pair (en, fr) resolves to nothing without error. *)
C5_StableFilter ==
  /\ Built =>
       /\ ResolvedNames = SelectSeq(Names, Supports)
       /\ Len(ResolvedNames) <= Len(Names)
       /\ \A i \in DOMAIN ResolvedNames : Supports(ResolvedNames[i])
  /\ (pc /= "configured" /\ Pair = <<"en", "fr">>
        /\ \A i \in DOMAIN Names : Names[i] \in DOMAIN DATASET_MAP)
       => (Built /\ error = "" /\ ResolvedNames = <<>>)

C5_Witness ==
  /\ Built
  /\ Pair = <<"de", "en">>
  /\ Names = <<"GNOME", "OpenOffice", "EMEA">>
  /\ ResolvedNames = <<"GNOME", "EMEA">>

(* C10: split generation fetches one locator per resolved entry, in resolved
   order, none for a corpus without the pair; locator and paths carry
   "source-target" in the order of the requested pair, the source path ends
   in ".source", the target path in ".target"; the one split is "train" and
   carries the resolved list. *)
C10_FetchPerResolved ==
  Built =>
    LET expected == SelectSeq(Names, Supports)
        ext == Pair[1] \o "-" \o Pair[2]
        locator(n) == DATASET_MAP[n].url \o ext \o ".txt.zip"
        stem(n) == ExtractDir(locator(n)) \o "/" \o DATASET_MAP[n].filename
                     \o "." \o ext \o "."
    IN /\ Len(splits) = 1
       /\ splits[1].name = "train"
       /\ DOMAIN splits[1].gen_kwargs = {"subsets"}
       /\ Len(GenSubsets) = Len(expected)
       /\ Len(downloads) = Len(expected)
       /\ \A i \in DOMAIN expected :
            /\ downloads[i] = locator(expected[i])
            /\ GenSubsets[i] = [name |-> expected[i],
                                source_file |-> stem(expected[i]) \o Pair[1],
                                target_file |-> stem(expected[i]) \o Pair[2]]
       /\ \A i \in DOMAIN Names :
            ~Supports(Names[i]) =>
              \A j \in DOMAIN downloads : downloads[j] /= locator(Names[i])

C10_Witness ==
  /\ Built
  /\ Pair = <<"de", "en">>
  /\ Names = <<"OpenOffice", "GNOME", "EMEA">>
  /\ Len(downloads) = 2
  /\ GenSubsets[1].source_file =
       "/extracted/http://opus.nlpl.eu/download.php?f=GNOME/v1/moses/de-en.txt.zip/GNOME.de-en.de"

Binomial2(n) == (n * (n - 1)) \div 2

IsDistinct(s) == \A i, j \in DOMAIN s : i /= j => s[i] /= s[j]

PairsOK(languages, pairs) ==
  /\ Len(pairs) = Binomial2(Len(languages))
  /\ \A i \in DOMAIN pairs :
       /\ pairs[i][1] /= pairs[i][2]
       /\ pairs[i][1] \in Range(languages)
       /\ pairs[i][2] \in Range(languages)
  /\ \A i, j \in DOMAIN pairs :
       i /= j => {pairs[i][1], pairs[i][2]} /= {pairs[j][1], pairs[j][2]}

(* C7: a SubDataset constructed from a list of n distinct codes has
   n(n-1)/2 language pairs, each of two distinct codes of the list, no
   unordered pair twice; so has every entry of the catalog. *)
C7_PairCount ==
  /\ (pc = "built" /\ IsDistinct(new_languages))
       => PairsOK(new_languages, new_dataset.language_pairs)
  /\ pc = "built" =>
       \A n \in DOMAIN DATASET_MAP :
         PairsOK(CatalogLanguages[n], DATASET_MAP[n].language_pairs)

C7_Witness ==
  /\ pc = "built"
  /\ new_languages = <<"de", "en", "es">>
  /\ Len(new_dataset.language_pairs) = 3

\* the generator of this frame is in or past an item whose files it read
Active(f) == f.status \in {"suspended", "returned"} /\ f.item >= 1

Shorter(f) == Min(Len(f.source_sentences), Len(f.target_sentences))

Longer(f) == Max(Len(f.source_sentences), Len(f.target_sentences))

\* the 0-based line indexes below the shorter length where neither line is ""
ValidIndexes(sources, targets) ==
  {i \in 0..(Min(Len(sources), Len(targets)) - 1) :
     sources[i + 1] /= <<>> /\ targets[i + 1] /= <<>>}

ValidOf(f) == ValidIndexes(f.source_sentences, f.target_sentences)

\* the valid indexes the generator has gone through in its current item
Seen(f) ==
  IF f.status = "suspended" THEN {i \in ValidOf(f) : i <= f.idx} ELSE ValidOf(f)

\* the number of valid indexes of the first k resolved subsets
RECURSIVE ValidBefore(_)
ValidBefore(k) ==
  IF k = 0 THEN 0
  ELSE ValidBefore(k - 1)
         + Cardinality(ValidIndexes(Split(fs[GenSubsets[k].source_file]),
                                    Split(fs[GenSubsets[k].target_file])))

\* the records the generator has yielded in its current item
BatchOf(f) ==
  SubSeq(f.records, ValidBefore(f.item - 1) + 1, Len(f.records))

\* the record of line i of the current item
RecordAt(f, i) ==
  [key |-> Key(GenSubsets[f.item].name, i),
   result |-> [c \in {Pair[1], Pair[2]} |->
                 IF c = Pair[1] THEN f.source_sentences[i + 1]
                 ELSE f.target_sentences[i + 1]]]

(* C3: the records of one resolved subset are those of the indexes below
   the shorter line count at which neither line is the empty string, one
   record each, with the source line under the source code and the target
   line under the target code; no field of a record is empty. At a yield
   the records of the subset are those of such indexes up to the current
   one; once the generator is past the subset, those of all of them. *)
C3_RecordsOfItem ==
  Built =>
    \A g \in DOMAIN gens :
      LET f == gens[g]
          b == BatchOf(f)
      IN Active(f) =>
           /\ Len(f.records) = ValidBefore(f.item - 1) + Cardinality(Seen(f))
           /\ f.status = "suspended" => f.idx \in ValidOf(f)
           /\ \A i \in Seen(f) : \E k \in DOMAIN b : b[k] = RecordAt(f, i)
           /\ \A k \in DOMAIN b : \E i \in Seen(f) : b[k] = RecordAt(f, i)
           /\ \A k \in DOMAIN f.records :
                \A c \in DOMAIN f.records[k].result :
                  f.records[k].result[c] /= <<>>

C3_Witness ==
  /\ Started
  /\ gens[1].status = "suspended"
  /\ gens[1].item = 1
  /\ gens[1].source_sentences = << <<"a">>, <<>>, <<" ">> >>
  /\ gens[1].target_sentences = << <<" ">>, <<"a">>, <<"a">> >>
  /\ Len(gens[1].records) = 2
  /\ gens[1].records[2].key = "EMEA/2"
  /\ gens[1].records[2].result["de"] = <<" ">>

(* C6: no record of a subset has a line index at or beyond the shorter of
   the two line counts, and a difference of the counts raises no error: a
   generator raises only at a file that is missing. *)
C6_TruncatingZip ==
  Built =>
    \A g \in DOMAIN gens :
      LET f == gens[g]
          b == BatchOf(f)
      IN /\ Active(f) =>
              /\ Len(b) <= Shorter(f)
              /\ \A k \in DOMAIN b :
                   /\ \E i \in 0..(Shorter(f) - 1) :
                        b[k].key = Key(GenSubsets[f.item].name, i)
                   /\ \A i \in Shorter(f)..(Longer(f) - 1) :
                        b[k].key /= Key(GenSubsets[f.item].name, i)
              /\ f.error = ""
         /\ f.status = "raised" =>
              \/ GenSubsets[f.item].source_file \notin DOMAIN fs
              \/ GenSubsets[f.item].target_file \notin DOMAIN fs

C6_Witness ==
  /\ Started
  /\ gens[1].status = "returned"
  /\ gens[1].item = 2
  /\ Len(gens[1].source_sentences) = 3
  /\ Len(gens[1].target_sentences) = 1
  /\ gens[1].source_sentences[3] /= <<>>
  /\ gens[1].target_sentences[1] /= <<>>
  /\ Len(BatchOf(gens[1])) = 1

(* C4 as stated: no two records of one pass have the same key. *)
C4_UniqueKeys ==
  \A g \in DOMAIN gens :
    \A i, j \in DOMAIN gens[g].records :
      i /= j => gens[g].records[i].key /= gens[g].records[j].key

(* C8: two passes over the same resolved subsets and files that both ran
   to the end have yielded the same records in the same order, however
   their steps interleave, and a pass leaves the resolved list what split
   generation made of the configuration. *)
C8_SecondPassSame ==
  /\ \A g, h \in DOMAIN gens :
       (gens[g].status = "returned" /\ gens[h].status = "returned")
         => gens[g].records = gens[h].records
  /\ Built => /\ splits = split_generators(builder_config).splits
              /\ builder_config \in TwiceConfigs

C8_Witness ==
  /\ Built
  /\ Len(gens) = 2
  /\ gens[1].status = "returned"
  /\ gens[2].status = "returned"
  /\ Len(GenSubsets) = 2
  /\ Len(gens[2].records) = 4
  /\ gens[1].records = gens[2].records

(* C9: of two records of a pass, the earlier comes from an earlier position
   of the resolved list, or from the same position and a smaller line
   index. *)
C9_RecordOrder ==
  Built =>
    \A g \in DOMAIN gens :
      \A p, q \in DOMAIN gens[g].records :
        p < q =>
          \E k1, k2 \in DOMAIN GenSubsets :
            \E i1, i2 \in 0..MaxLines :
              /\ gens[g].records[p].key = Key(GenSubsets[k1].name, i1)
              /\ gens[g].records[q].key = Key(GenSubsets[k2].name, i2)
              /\ (k1 < k2 \/ (k1 = k2 /\ i1 < i2))

C9_Witness ==
  /\ Started
  /\ ResolvedNames = <<"EMEA", "OpenOffice">>
  /\ Len(gens[1].records) = 3
  /\ gens[1].records[1].key = "EMEA/0"
  /\ gens[1].records[2].key = "EMEA/1"
  /\ gens[1].records[3].key = "OpenOffice/0"

\* A generator that a missing target file stopped: it has read the source.
RaisedAtTarget ==
  /\ Started
  /\ gens[1].status = "raised"
  /\ gens[1].error = "NotFoundError"
  /\ gens[1].source_sentences = << <<"a">> >>
  /\ gens[1].records = <<>>

\* A generator suspended inside a subset, one of its two records handed out.
SuspendedInsideItem ==
  /\ Started
  /\ gens[1].status = "suspended"
  /\ gens[1].idx = 0
  /\ gens[1].source_sentences = << <<"a">>, <<"a">> >>
  /\ gens[1].target_sentences = << <<"a">>, <<" ">> >>
  /\ Len(gens[1].records) = 1
  /\ gens[1].records[1].key = "EMEA/0"

\* A second pass that ran to its end while the first is still suspended.
SecondPassOvertakes ==
  /\ SuspendedInsideItem
  /\ Len(gens) = 2
  /\ gens[2].status = "returned"
  /\ Len(gens[2].records) = 4
====
